---- MODULE Spec2Model ----
(***************************************************************************)
(* Model of web/js/history.js: the workout-history view.  Two listeners    *)
(* (DOMContentLoaded, change on #userFilter) call the async function       *)
(* loadWorkouts, which writes a loading placeholder into #workoutList,     *)
(* fetches the workouts and renders them, or an empty / error message.     *)
(* Every invocation of loadWorkouts is one entry of calls; it is suspended *)
(* at `await fetch(url)` (pc = "fetch") or at `await response.json()`      *)
(* (pc = "json") until the network answers.                                *)
(***************************************************************************)
EXTENDS Integers, Sequences, FiniteSets, TLC

VARIABLES
    userFilterExists,   \* document.getElementById('userFilter') is not null
    workoutListExists,  \* document.getElementById('workoutList') is not null
    timeZoneWest,       \* the browser's time zone is behind UTC
    filterValue,        \* #userFilter.value
    innerHTML,          \* #workoutList.innerHTML
    calls,              \* the invocations of loadWorkouts, in trigger order
    console,            \* what console.log / console.error have printed
    pageReady,          \* DOMContentLoaded has fired
    last                \* the step taken last: its operation, call and body

vars == <<userFilterExists, workoutListExists, timeZoneWest, filterValue,
          innerHTML, calls, console, pageReady, last>>

(***************************************************************************)
(* Bounds of the model.                                                    *)
(***************************************************************************)
MaxCalls == 2       \* triggers (invocations of loadWorkouts) in one run
MaxWorkouts == 2    \* longest array the endpoint returns

(***************************************************************************)
(* Inputs: option values of the filter, and the bodies the endpoint sends. *)
(***************************************************************************)
FilterValues == {"", "1", "2"}

Squat == [name |-> "Squat", num_sets |-> 3, max_weight |-> 200, total_reps |-> 15]

Bench == [name |-> "Bench", num_sets |-> 3, max_weight |-> 150, total_reps |-> 18]

\* total_volume is kept in tenths of a pound: 10000 is 1000, 2456 is 245.6.
WorkoutA ==
    [workout_date |-> "2024-01-10", num_exercises |-> 2, total_volume |-> 10000,
     hasExercises |-> TRUE, exercises |-> <<Squat, Bench>>]

WorkoutB ==
    [workout_date |-> "2024-03-15", num_exercises |-> 1, total_volume |-> 2456,
     hasExercises |-> TRUE, exercises |-> <<Squat>>]

\* An element of unexpected shape: no exercises field, an unparsable date.
WorkoutBad ==
    [workout_date |-> "n/a", num_exercises |-> 0, total_volume |-> 0,
     hasExercises |-> FALSE, exercises |-> <<>>]

ValidWorkouts == {WorkoutA, WorkoutB}

SeqsUpTo(S, n) == UNION {[1..k -> S] : k \in 0..n}

\* The arrays the endpoint returns: valid workouts, or valid workouts
\* followed by one malformed element.
Arrays ==
    SeqsUpTo(ValidWorkouts, MaxWorkouts)
    \cup {Append(s, WorkoutBad) : s \in SeqsUpTo(ValidWorkouts, MaxWorkouts - 1)}

\* The values response.json() can resolve to: those arrays, null, an object
\* such as {"detail": ...}, and the strings "" and "x".
Bodies ==
    {[shape |-> "array", items |-> s] : s \in Arrays}
    \cup {[shape |-> "null", items |-> <<>>], [shape |-> "object", items |-> <<>>],
          [shape |-> "string", items |-> <<>>], [shape |-> "string", items |-> <<"x">>]}

NoBody == [shape |-> "none", items |-> <<>>]

(***************************************************************************)
(* Pure functions of the source.                                           *)
(***************************************************************************)
\* new Date(s) reads a date-only ISO string as UTC midnight, and
\* toLocaleDateString prints it in the local time zone: west of UTC that
\* is the evening before.
formatDate(dateString, west) ==
    CASE dateString = "2024-01-10" ->
            IF west THEN "Tue, Jan 9, 2024" ELSE "Wed, Jan 10, 2024"
      [] dateString = "2024-03-15" ->
            IF west THEN "Thu, Mar 14, 2024" ELSE "Fri, Mar 15, 2024"
      [] OTHER -> "Invalid Date"

\* Math.round on a value given in tenths: floor(x + 0.5).
MathRound(tenths) == (tenths + 5) \div 10

ExerciseTag(ex) ==
    [name |-> ex.name, num_sets |-> ex.num_sets, max_weight |-> ex.max_weight,
     total_reps |-> ex.total_reps]

WorkoutCard(workout, west) ==
    [date |-> formatDate(workout.workout_date, west),
     num_exercises |-> workout.num_exercises,
     lbs |-> MathRound(workout.total_volume),
     tags |-> [j \in 1..Len(workout.exercises) |-> ExerciseTag(workout.exercises[j])]]

\* Mutant of RenderCards: the cards come out in reverse order.
RenderCards_Reversed(workouts, west) ==
    [k \in 1..Len(workouts) |-> WorkoutCard(workouts[Len(workouts) + 1 - k], west)]

\* workouts.map(workout => card).join('')
RenderCards(workouts, west) ==
    [k \in 1..Len(workouts) |-> WorkoutCard(workouts[k], west)]

Base == "http://localhost:8000/workouts"

\* Mutant of BuildUrl: the parameter is appended without the test of line 24.
BuildUrl_Always(userFilter) == <<Base, "?user_id=", userFilter>>

\* The url as the pieces the template literal concatenates.
BuildUrl(userFilter) ==
    IF userFilter # "" THEN <<Base, "?user_id=", userFilter>> ELSE <<Base>>

(***************************************************************************)
(* What #workoutList.innerHTML can hold.                                   *)
(***************************************************************************)
InitialHTML == [html |-> "", cards |-> <<>>]

LoadingHTML == [html |-> "<p>Loading workouts...</p>", cards |-> <<>>]

EmptyHTML == [html |-> "<p>No workouts found. Start logging!</p>", cards |-> <<>>]

ErrorHTML ==
    [html |-> "<p class=\"error\">Error loading workouts. Please try again.</p>",
     cards |-> <<>>]

CardsHTML(cards) == [html |-> "workout-card", cards |-> cards]

(***************************************************************************)
(* The body of the try block after `await response.json()`, lines 32-60,   *)
(* and the catch block, lines 62-65, as the writes they make.              *)
(***************************************************************************)
\* Mutant of LengthIsZero: the test of line 33 never succeeds.
LengthIsZero_Never(workouts) == FALSE

\* workouts.length === 0: true of the empty array and of the empty string.
LengthIsZero(workouts) ==
    workouts.shape \in {"array", "string"} /\ Len(workouts.items) = 0

\* The TypeErrors of lines 33-58: null has no length; an object or a
\* non-empty string has no map; an element without exercises has no
\* exercises.map.
Throws(workouts) ==
    \/ workouts.shape = "null"
    \/ workouts.shape = "object"
    \/ workouts.shape = "string" /\ Len(workouts.items) > 0
    \/ /\ workouts.shape = "array"
       /\ \E k \in 1..Len(workouts.items) : ~workouts.items[k].hasExercises

ErrorEntry == [level |-> "error", text |-> "Error loading workouts:", count |-> 0]

LogEntry(n) == [level |-> "log", text |-> "Loaded workouts", count |-> n]

\* Mutant of CatchBlock: the fault is logged and the display left alone.
CatchBlock_LogOnly == [innerHTML |-> innerHTML, printed |-> <<ErrorEntry>>]

\* catch (error) { console.error(...); workoutList.innerHTML = error message }
CatchBlock == [innerHTML |-> ErrorHTML, printed |-> <<ErrorEntry>>]

\* Mutant of TryBlock: the empty case returns without writing its message.
TryBlock_SilentEmpty(workouts, west) ==
    IF Throws(workouts) THEN CatchBlock
    ELSE IF LengthIsZero(workouts)
         THEN [innerHTML |-> innerHTML, printed |-> <<>>]
         ELSE [innerHTML |-> CardsHTML(RenderCards(workouts.items, west)),
               printed |-> <<LogEntry(Len(workouts.items))>>]

\* Lines 32-60 for the parsed body `workouts`.
TryBlock(workouts, west) ==
    IF Throws(workouts) THEN CatchBlock
    ELSE IF LengthIsZero(workouts)
         THEN [innerHTML |-> EmptyHTML, printed |-> <<>>]
         ELSE [innerHTML |-> CardsHTML(RenderCards(workouts.items, west)),
               printed |-> <<LogEntry(Len(workouts.items))>>]

(***************************************************************************)
(* State.                                                                  *)
(***************************************************************************)
Pending(i) == calls[i].pc \in {"fetch", "json"}

InFlight == {i \in 1..Len(calls) : Pending(i)}

Start == [op |-> "start", call |-> 0, body |-> NoBody, fault |-> "none"]

InitState ==
    /\ timeZoneWest \in BOOLEAN
    /\ filterValue = ""
    /\ innerHTML = InitialHTML
    /\ calls = <<>>
    /\ console = <<>>
    /\ pageReady = FALSE
    /\ last = Start

\* The page has both elements: the precondition of loadWorkouts.
Init ==
    /\ userFilterExists = TRUE
    /\ workoutListExists = TRUE
    /\ InitState

\* Any page: either element may be missing.
InitDom ==
    /\ userFilterExists \in BOOLEAN
    /\ workoutListExists \in BOOLEAN
    /\ InitState

(***************************************************************************)
(* loadWorkouts up to its first await, lines 13-29, run by a listener.     *)
(* value is #userFilter.value as the call reads it.  Lines 15 and 18-19    *)
(* are outside the try: with an element missing the call throws there, and *)
(* the promise the listener awaits is rejected (pc = "thrown").            *)
(***************************************************************************)
loadWorkouts(value, op) ==
    IF ~userFilterExists
    THEN /\ calls' = Append(calls, [pc |-> "thrown", url |-> <<>>])
         /\ last' = [op |-> op, call |-> Len(calls) + 1, body |-> NoBody, fault |-> "dom"]
         /\ UNCHANGED <<innerHTML, console>>
    ELSE IF ~workoutListExists
    THEN /\ calls' = Append(calls, [pc |-> "thrown", url |-> <<>>])
         /\ last' = [op |-> op, call |-> Len(calls) + 1, body |-> NoBody, fault |-> "dom"]
         /\ UNCHANGED <<innerHTML, console>>
    ELSE /\ innerHTML' = LoadingHTML
         /\ calls' = Append(calls, [pc |-> "fetch", url |-> BuildUrl(value)])
         /\ last' = [op |-> op, call |-> Len(calls) + 1, body |-> NoBody, fault |-> "none"]
         /\ UNCHANGED console

\* document.addEventListener('DOMContentLoaded', ...): fires once.
DOMContentLoaded ==
    /\ ~pageReady
    /\ Len(calls) < MaxCalls
    /\ pageReady' = TRUE
    /\ loadWorkouts(filterValue, "DOMContentLoaded")
    /\ UNCHANGED <<userFilterExists, workoutListExists, timeZoneWest, filterValue>>

\* The user picks another option of #userFilter; the listener of line 9 is
\* registered only when the element exists.
UserFilterChange(v) ==
    /\ userFilterExists
    /\ v # filterValue
    /\ Len(calls) < MaxCalls
    /\ filterValue' = v
    /\ loadWorkouts(v, "change")
    /\ UNCHANGED <<userFilterExists, workoutListExists, timeZoneWest, pageReady>>

(***************************************************************************)
(* The continuations of a suspended call.                                  *)
(***************************************************************************)
\* Mutant of Finish: a response that is not the latest call's is discarded.
Finish_DiscardStale(i, result, op, body, fault) ==
    /\ calls' = [calls EXCEPT ![i].pc = "done"]
    /\ innerHTML' = IF i = Len(calls) THEN result.innerHTML ELSE innerHTML
    /\ console' = IF i = Len(calls) THEN console \o result.printed ELSE console
    /\ last' = [op |-> op, call |-> i, body |-> body, fault |-> fault]
    /\ UNCHANGED <<userFilterExists, workoutListExists, timeZoneWest, filterValue,
                   pageReady>>

\* The rest of a call once its await has settled: the writes of `result`.
Finish(i, result, op, body, fault) ==
    /\ calls' = [calls EXCEPT ![i].pc = "done"]
    /\ innerHTML' = result.innerHTML
    /\ console' = console \o result.printed
    /\ last' = [op |-> op, call |-> i, body |-> body, fault |-> fault]
    /\ UNCHANGED <<userFilterExists, workoutListExists, timeZoneWest, filterValue,
                   pageReady>>

\* fetch(url) resolves with a Response; line 30 calls response.json().
FetchResolve(i) ==
    /\ calls[i].pc = "fetch"
    /\ calls' = [calls EXCEPT ![i].pc = "json"]
    /\ last' = [op |-> "fetchResolve", call |-> i, body |-> NoBody, fault |-> "none"]
    /\ UNCHANGED <<userFilterExists, workoutListExists, timeZoneWest, filterValue,
                   innerHTML, console, pageReady>>

\* fetch(url) is rejected: a network failure.
FetchReject(i) ==
    /\ calls[i].pc = "fetch"
    /\ Finish(i, CatchBlock, "fetchReject", NoBody, "network")

\* Mutant of JsonReject: line 30 sits outside the try, the rejection escapes.
JsonReject_Uncaught(i) ==
    /\ calls[i].pc = "json"
    /\ calls' = [calls EXCEPT ![i].pc = "thrown"]
    /\ last' = [op |-> "jsonReject", call |-> i, body |-> NoBody, fault |-> "nonjson"]
    /\ UNCHANGED <<userFilterExists, workoutListExists, timeZoneWest, filterValue,
                   innerHTML, console, pageReady>>

\* response.json() is rejected: the body is not JSON.
JsonReject(i) ==
    /\ calls[i].pc = "json"
    /\ Finish(i, CatchBlock, "jsonReject", NoBody, "nonjson")

\* response.json() resolves with `workouts`; lines 32-60 run.
JsonResolve(i, workouts) ==
    /\ calls[i].pc = "json"
    /\ Finish(i, TryBlock(workouts, timeZoneWest), "jsonResolve", workouts,
              IF Throws(workouts) THEN "shape" ELSE "none")

Next ==
    \/ DOMContentLoaded
    \/ \E v \in FilterValues : UserFilterChange(v)
    \/ \E i \in 1..Len(calls) : FetchResolve(i)
    \/ \E i \in 1..Len(calls) : FetchReject(i)
    \/ \E i \in 1..Len(calls) : JsonReject(i)
    \/ \E i \in 1..Len(calls) : \E workouts \in Bodies : JsonResolve(i, workouts)

Spec == Init /\ [][Next]_vars

SpecDom == InitDom /\ [][Next]_vars

(***************************************************************************)
(* Properties.                                                             *)
(***************************************************************************)
Triggered == Len(calls) > 0

IsResultHTML(h) == h \in {EmptyHTML, ErrorHTML} \/ h.html = "workout-card"

ValidNonEmptyArray(body) ==
    /\ body.shape = "array"
    /\ Len(body.items) > 0
    /\ \A k \in 1..Len(body.items) : body.items[k] \in ValidWorkouts

EmptyArray == [shape |-> "array", items |-> <<>>]

\* A step in which a suspended call runs to its end.
Completes(i) == Pending(i) /\ calls'[i].pc = "done"

\* A step in which a listener fires.
Triggers == Len(calls') = Len(calls) + 1

\* C1: when response.json() has just resolved a call with a non-empty array
\* of valid workouts and no other call is in flight, the display holds one
\* card per element, in the array's order, and is neither the empty-state
\* nor the error message.
C1_OneCardPerWorkout ==
    (last.op = "jsonResolve" /\ ValidNonEmptyArray(last.body) /\ InFlight = {})
    => /\ innerHTML.html = "workout-card"
       /\ innerHTML \notin {EmptyHTML, ErrorHTML, LoadingHTML}
       /\ Len(innerHTML.cards) = Len(last.body.items)
       /\ \A k \in 1..Len(last.body.items) :
            innerHTML.cards[k] = WorkoutCard(last.body.items[k], timeZoneWest)

C1_Witness ==
    /\ last.op = "jsonResolve"
    /\ last.body = [shape |-> "array", items |-> <<WorkoutA, WorkoutB>>]
    /\ InFlight = {}
    /\ Len(innerHTML.cards) = 2
    /\ innerHTML.cards[1].lbs = 1000
    /\ innerHTML.cards[2].lbs = 246

\* C2: the step in which a call receives the empty array leaves the display
\* holding the "no workouts found" message with no card, and prints nothing
\* to the console (the call returns before the render and the count log).
C2_EmptyArrayMessage ==
    [][(last' # last /\ last'.op = "jsonResolve" /\ last'.body = EmptyArray)
        => /\ innerHTML' = EmptyHTML
           /\ innerHTML'.cards = <<>>
           /\ console' = console
           /\ calls'[last'.call].pc = "done"]_vars

C2_Witness ==
    /\ last.op = "jsonResolve"
    /\ last.body = EmptyArray
    /\ innerHTML = EmptyHTML
    /\ console = <<>>

\* C3: when the fetch of a call has just been rejected, the display holds
\* the generic error message, with no card and no empty-state message.
C3_RejectedFetchShowsError ==
    last.op = "fetchReject"
    => /\ innerHTML = ErrorHTML
       /\ innerHTML.cards = <<>>
       /\ innerHTML # EmptyHTML

C3_Witness ==
    /\ last.op = "fetchReject"
    /\ innerHTML = ErrorHTML
    /\ calls[last.call].pc = "done"

\* C4: the url of the request a trigger issues carries user_id equal to the
\* filter's value at that moment when the value is non-empty, and no
\* user_id otherwise; the url of a request already issued never changes,
\* whatever the filter does while it is pending.
C4_UrlCarriesFilter ==
    [][/\ Triggers =>
            LET url == calls'[Len(calls')].url IN
            IF filterValue' # ""
            THEN url = <<Base, "?user_id=", filterValue'>>
            ELSE url = <<Base>>
       /\ \A i \in 1..Len(calls) : calls'[i].url = calls[i].url]_vars

C4_Witness ==
    /\ Len(calls) = 2
    /\ Pending(1)
    /\ Pending(2)
    /\ calls[1].url = <<Base, "?user_id=", "1">>
    /\ calls[2].url = <<Base>>
    /\ filterValue = ""

\* C5 as stated: no call ever lets a fault escape to its caller, and after
\* every fault (a missing element included) the display holds the error
\* message.
C5_EveryFaultCaught ==
    /\ \A i \in 1..Len(calls) : calls[i].pc # "thrown"
    /\ last.fault # "none" => innerHTML = ErrorHTML

\* C5 amended: a fault raised inside the try block (rejected fetch, non-JSON
\* body, a body of a shape that raises a TypeError) is caught: the call ends
\* normally, the display holds the error message and the fault is logged;
\* a missing userFilter or workoutList faults before the try block, so the
\* call throws to its caller, issues no request, and the error message is
\* not written; no call throws when both elements exist.
C5_FaultsInTryCaught ==
    /\ \A i \in 1..Len(calls) :
            calls[i].pc = "thrown" <=> ~(userFilterExists /\ workoutListExists)
    /\ (last.op = "jsonResolve" /\ last.body.shape \in {"null", "object"})
            => last.fault = "shape"
    /\ last.fault \in {"network", "nonjson", "shape"}
            => /\ innerHTML = ErrorHTML
               /\ calls[last.call].pc = "done"
               /\ console # <<>>
               /\ console[Len(console)] = ErrorEntry
    /\ last.fault = "dom"
            => /\ calls[last.call].pc = "thrown"
               /\ calls[last.call].url = <<>>
               /\ innerHTML # ErrorHTML

C5_Witness ==
    /\ ~workoutListExists
    /\ last.fault = "dom"
    /\ calls[last.call].pc = "thrown"
    /\ innerHTML = InitialHTML

\* What the response that settled a call leaves on the display.
OutcomeHTML(l) ==
    IF l.fault # "none" THEN ErrorHTML
    ELSE IF l.body.items = <<>> THEN EmptyHTML
    ELSE CardsHTML([k \in 1..Len(l.body.items) |->
                        WorkoutCard(l.body.items[k], timeZoneWest)])

\* C6: once every call has settled, the display holds the outcome of the
\* response that settled last, whichever call it belongs to: no response is
\* discarded, so an older call's outcome can overwrite a newer call's.
C6_LastResponseWins ==
    (Triggered /\ InFlight = {}) => innerHTML = OutcomeHTML(last)

C6_Witness ==
    /\ Len(calls) = 2
    /\ calls[1].pc = "done"
    /\ calls[2].pc = "done"
    /\ last.call = 1
    /\ last.op = "jsonResolve"
    /\ ValidNonEmptyArray(last.body)
    /\ innerHTML = OutcomeHTML(last)
    /\ calls[1].url # calls[2].url

\* C7 as stated: while the request of the latest trigger is unresolved (and
\* so no further trigger has fired), the display is the loading placeholder.
C7_LatestPendingStaysLoading ==
    (Triggered /\ Pending(Len(calls))) => innerHTML = LoadingHTML

\* C8 as stated: every trigger leaves the display loading, and a call that
\* completes (writing populated, empty or error) finds the display loading.
C8_ResultOnlyFromLoading ==
    [][/\ Triggers => innerHTML' = LoadingHTML
       /\ \A i \in 1..Len(calls) :
            Completes(i) => (IsResultHTML(innerHTML') /\ innerHTML = LoadingHTML)]_vars

\* C9 as stated: the requests issued are as many as the triggers fired, and
\* the display leaves the error state only by a trigger.
C9_NoRetryErrorStays ==
    [][/\ Cardinality({i \in 1..Len(calls') : calls'[i].url # <<>>}) = Len(calls')
       /\ (innerHTML = ErrorHTML /\ innerHTML' # ErrorHTML) => Triggers]_vars

\* C10: with both elements present, once a trigger has fired and no request
\* is in flight the display is not the loading placeholder: it holds cards,
\* the empty-state message or the error message.
C10_SettledIsNotLoading ==
    (userFilterExists /\ workoutListExists /\ Triggered /\ InFlight = {})
    => /\ innerHTML # LoadingHTML
       /\ IsResultHTML(innerHTML)

C10_Witness ==
    /\ userFilterExists
    /\ workoutListExists
    /\ Len(calls) = 2
    /\ InFlight = {}
    /\ innerHTML = EmptyHTML

====
